---- MODULE Spec2Model ----
(***************************************************************************)
(* A model of the bowl pick'em Flask application (src/app.py): the CSV     *)
(* files of the storage directory, the start-up code (seed_disk,           *)
(* ALLOWED_GROUPS), the require_group wrapper and the request handlers.    *)
(*                                                                         *)
(* A CSV file is a record [exists, rows]; rows is the sequence of its data *)
(* rows in file order.  A pandas NaN / Python None cell is the empty       *)
(* sequence <<>>, a present optional value v is <<v>>.                     *)
(***************************************************************************)
EXTENDS Integers, Sequences, FiniteSets, TLC

VARIABLES
    disk,     \* DISK_DIR: file name -> [exists, rows]
    seed,     \* ./storage_seed: [exists, files]
    allowed,  \* ALLOWED_GROUPS: lower-cased group name -> name as in groups.csv
    pc,       \* "boot" while the module is being imported, then "serving"
    resp,     \* the last request served and its response
    procs,    \* the confirm_picks requests in flight (SpecRace only)
    sched,    \* scheduler.run_update_script and its child process (SpecJobs only)
    hook,     \* a POST /internal/update_winners in progress (SpecJobs only)
    games_csv \* data/test_games.csv, the file update_winners_live.py rewrites

jobs == <<sched, hook, games_csv>>

web == <<disk, seed, allowed, pc, resp, procs>>

vars == <<disk, seed, allowed, pc, resp, procs, sched, hook, games_csv>>

-----------------------------------------------------------------------------
(* Strings.  str.lower() and str.strip() on the strings of the model.      *)

Lower(s) ==
    CASE s = "Bob"   -> "bob"
      [] s = "Test"  -> "test"
      [] s = "TEST"  -> "test"
      [] s = "Pals"  -> "pals"
      [] s = "Nope"  -> "nope"
      [] s = "Zed"   -> "zed"
      [] OTHER       -> s

Strip(s) ==
    CASE s = " Test" -> "Test"
      [] s = "bob "  -> "bob"
      [] OTHER       -> s

NaN == <<>>

-----------------------------------------------------------------------------
(* Files.                                                                  *)

FileNames == {"users", "picks", "games", "groups", "tiebreakers", "session", "group_info"}

Missing == [exists |-> FALSE, rows |-> <<>>]

File(rows) == [exists |-> TRUE, rows |-> rows]

\* The keys of ALLOWED_GROUPS test membership; Range of a sequence.
Range(s) == {s[i] : i \in 1..Len(s)}

-----------------------------------------------------------------------------
(* seed_disk: copy games.csv, groups.csv and picks.csv from the seed       *)
(* directory, each only when the disk does not hold it.                    *)

SeedFileNames == <<"games", "groups", "picks">>

\* SeedOne without the test that the disk lacks the file.
SeedOne_Overwrite(d, sd, filename) ==
    IF sd.files[filename].exists
    THEN [d EXCEPT ![filename] = sd.files[filename]]
    ELSE d

\* One iteration of the loop over the file names.
SeedOne(d, sd, filename) ==
    IF ~d[filename].exists
    THEN IF sd.files[filename].exists
         THEN [d EXCEPT ![filename] = sd.files[filename]]
         ELSE d
    ELSE d

RECURSIVE SeedLoop(_, _, _)
SeedLoop(d, sd, names) ==
    IF names = <<>> THEN d
    ELSE SeedLoop(SeedOne(d, sd, Head(names)), sd, Tail(names))

seed_disk(d, sd) ==
    IF ~sd.exists THEN d
    ELSE SeedLoop(d, sd, SeedFileNames)

-----------------------------------------------------------------------------
(* load_groups and ALLOWED_GROUPS.                                         *)

\* set(df["group_name"].astype(str).str.strip()); the empty set without the file.
load_groups(d) ==
    IF ~d["groups"].exists THEN {}
    ELSE {Strip(g) : g \in Range(d["groups"].rows)}

\* {g.lower(): g for g in load_groups()}: when two names share a key, the one
\* the set iterates last wins, which the set's hashing decides.
AllowedGroupMaps(d) ==
    LET gs   == load_groups(d)
        keys == {Lower(g) : g \in gs}
    IN  {m \in [keys -> gs] : \A k \in keys : Lower(m[k]) = k}

-----------------------------------------------------------------------------
(* Data helpers.                                                           *)

\* load_users: users.csv is created, header only, when it does not exist.
load_users(d) ==
    LET d1 == IF ~d["users"].exists THEN [d EXCEPT !["users"] = File(<<>>)] ELSE d
    IN  [disk |-> d1, df |-> d1["users"].rows]

save_users(d, df) == [d EXCEPT !["users"] = File(df)]

\* load_games: an empty frame without the file; blank cells become "".
load_games(d) == IF ~d["games"].exists THEN <<>> ELSE d["games"].rows

\* load_picks: an empty frame without the file.
load_picks(d) == IF ~d["picks"].exists THEN <<>> ELSE d["picks"].rows

load_tiebreakers(d) == IF ~d["tiebreakers"].exists THEN <<>> ELSE d["tiebreakers"].rows

\* user_has_submitted: a row of picks.csv with exactly this group and username.
user_has_submitted(d, username, group_name) ==
    \E r \in Range(load_picks(d)) :
        r.group_name = group_name /\ r.username = username

\* TiebreakerFrame without the removal of the user's old rows.
TiebreakerFrame_NoDrop(file, group_name, username, name, tb_value) ==
    Append(IF file.exists THEN file.rows ELSE <<>>,
           [group_name |-> group_name, username |-> username,
            name |-> name, tiebreaker |-> tb_value])

\* save_tiebreaker, after its read: the user's rows (exact match) dropped from
\* the frame read, the new row appended.
TiebreakerFrame(file, group_name, username, name, tb_value) ==
    LET df   == IF file.exists THEN file.rows ELSE <<>>
        kept == SelectSeq(df, LAMBDA r :
                    ~(r.group_name = group_name /\ r.username = username))
        row  == [group_name |-> group_name, username |-> username,
                 name |-> name, tiebreaker |-> tb_value]
    IN  Append(kept, row)

save_tiebreaker(d, group_name, username, name, tb_value) ==
    [d EXCEPT !["tiebreakers"] =
        File(TiebreakerFrame(d["tiebreakers"], group_name, username, name, tb_value))]

-----------------------------------------------------------------------------
(* Responses.                                                              *)

\* group is the group name the wrapped handler was called with (<<>> when no
\* handler ran behind require_group).
Response(d, status, body) ==
    [disk |-> d, status |-> status, body |-> body, group |-> <<>>]

ErrorBody(msg) == [kind |-> "error", error |-> msg]

\* An exception that escapes the handler: Flask answers 500.
Crash(d, exc) == Response(d, 500, [kind |-> "exception", error |-> exc])

-----------------------------------------------------------------------------
(* Requests.  A request is [op, group, username, name, picks, tiebreaker,  *)
(* point_value, token, now]; picks is <<>> when the body has no "picks"    *)
(* and <<dict>> otherwise, a dict being a sequence of <<game_id, team>>.   *)

\* The rows of df that belong to (group_name, username), compared lower-cased.
SameUserLower(r, group_name, username) ==
    Lower(r.group_name) = Lower(group_name) /\ Lower(r.username) = Lower(username)

\* The user has a row in users.csv / in picks.csv (lower-cased comparison).
HasUserRow(d, group_name, username) ==
    \E r \in Range(d["users"].rows) : SameUserLower(r, group_name, username)

HasPickRow(d, group_name, username) ==
    \E r \in Range(d["picks"].rows) : SameUserLower(r, group_name, username)

\* save_session_picks: append one row to session_picks.csv.
api_save_session_picks(d, group_name, req) ==
    LET username == Strip(req.username)
        df       == IF d["session"].exists THEN d["session"].rows ELSE <<>>
        row      == [group_name |-> group_name, username |-> username,
                     point_value |-> req.point_value[1],
                     picks |-> req.picks[1]]   \* str(raw_picks): the dict's text
    IN  IF username = "" \/ req.point_value = <<>> \/ req.picks = <<>>
        THEN Response(d, 400, ErrorBody("Missing required fields"))
        ELSE Response([d EXCEPT !["session"] = File(Append(df, row))],
                      200, [kind |-> "success"])

\* api_create_user without the look at picks.csv: an existing user always resumes.
api_create_user_NoPicksCheck(d, group_name, req) ==
    LET username == Strip(req.username)
        lu       == load_users(d)
        existing_user == SelectSeq(lu.df, LAMBDA r :
                             SameUserLower(r, group_name, username))
    IN  IF username = "" \/ Strip(req.name) = ""
        THEN Response(d, 400, ErrorBody("Missing username or name"))
        ELSE IF existing_user = <<>>
        THEN Crash(lu.disk, "NameError: generate_token")
        ELSE Response(lu.disk, 200,
                 [kind |-> "token", token |-> existing_user[1].token,
                  new |-> FALSE, resume |-> TRUE])

\* create-user.  The new-user branch calls generate_token(), a name the module
\* never defines (it defines generate_user_token): NameError, after load_users
\* has created users.csv when it was missing.
api_create_user(d, group_name, req) ==
    LET username == Strip(req.username)
        name     == Strip(req.name)
        lu       == load_users(d)
        users_df == lu.df
        picks_df == load_picks(lu.disk)
        existing_user == SelectSeq(users_df, LAMBDA r :
                             SameUserLower(r, group_name, username))
        user_picks    == SelectSeq(picks_df, LAMBDA r :
                             SameUserLower(r, group_name, username))
    IN  IF username = "" \/ name = ""
        THEN Response(d, 400, ErrorBody("Missing username or name"))
        ELSE IF existing_user = <<>>
        THEN Crash(lu.disk, "NameError: generate_token")
        ELSE IF Len(user_picks) > 0
        THEN Response(lu.disk, 400,
                 ErrorBody("Username already exists and has submitted picks"))
        ELSE Response(lu.disk, 200,
                 [kind |-> "token", token |-> existing_user[1].token,
                  new |-> FALSE, resume |-> TRUE])

-----------------------------------------------------------------------------
(* confirm_picks, as the steps between which another request can run:      *)
(*   start       validate the body, load_users, look the user up           *)
(*   save_users  set has_submitted and tiebreaker, rewrite users.csv       *)
(*   tb_read     save_tiebreaker reads tiebreakers.csv                     *)
(*   tb_write    save_tiebreaker rewrites tiebreakers.csv                  *)
(*   read_picks  load_games, read picks.csv                                *)
(*   write_picks drop the user's rows, append the new ones, rewrite        *)
(* A request's local state is [pc, req, group, users_df, tb_df, picks_df,  *)
(* games_df, status, body].                                                *)

NoBody == [kind |-> "none"]

NewLocal(group_name, req) ==
    [pc |-> "start", req |-> req, group |-> group_name,
     users_df |-> <<>>, tb_df |-> Missing, picks_df |-> <<>>, games_df |-> <<>>,
     status |-> 0, body |-> NoBody]

Finish(l, status, body) == [l EXCEPT !.pc = "done", !.status = status, !.body = body]

\* UserMask matching on the username alone, whatever the group of the row.
UserMask_AnyGroup(users_df, group_name, username) ==
    {i \in 1..Len(users_df) : Lower(users_df[i].username) = Lower(username)}

\* mask: the rows of users_df whose group_name and username equal, lower-cased,
\* those of the request.
UserMask(users_df, group_name, username) ==
    {i \in 1..Len(users_df) : SameUserLower(users_df[i], group_name, username)}

\* users_df.loc[mask, "token"].iloc[0]
FirstToken(users_df, mask) ==
    users_df[CHOOSE i \in mask : \A j \in mask : i <= j].token

\* users_df.loc[mask, "has_submitted"] = True; users_df.loc[mask, "tiebreaker"] = int(tiebreaker)
MarkSubmitted(users_df, group_name, username, tiebreaker) ==
    [i \in 1..Len(users_df) |->
        IF i \in UserMask(users_df, group_name, username)
        THEN [users_df[i] EXCEPT
                 !.has_submitted = <<TRUE>>,
                 !.tiebreaker = IF tiebreaker /= <<>> THEN tiebreaker ELSE @]
        ELSE users_df[i]]

\* DropUserPicks comparing group and username exactly.
DropUserPicks_Exact(picks_df, group_name, username) ==
    SelectSeq(picks_df, LAMBDA r :
        ~(r.group_name = group_name /\ r.username = username))

\* picks_df[~(group and username match, lower-cased)]
DropUserPicks(picks_df, group_name, username) ==
    SelectSeq(picks_df, LAMBDA r : ~SameUserLower(r, group_name, username))

\* games_df[games_df["game_id"] == str(game_id)]
GameRows(games_df, game_id) == SelectSeq(games_df, LAMBDA g : g.game_id = game_id)

\* int(game_row.iloc[0]["point_value"]) raises on a blank cell.
PointValueFails(games_df, picks) ==
    \E i \in 1..Len(picks) :
        /\ GameRows(games_df, picks[i][1]) /= <<>>
        /\ GameRows(games_df, picks[i][1])[1].point_value = <<>>

\* The loop over picks.items(): one row per game_id found in games.csv.
RECURSIVE NewPickRows(_, _, _, _, _)
NewPickRows(games_df, group_name, username, name, picks) ==
    IF picks = <<>> THEN <<>>
    ELSE LET game_id  == Head(picks)[1]
             game_row == GameRows(games_df, game_id)
             rest     == NewPickRows(games_df, group_name, username, name, Tail(picks))
         IN  IF game_row = <<>> THEN rest
             ELSE <<[group_name |-> group_name, username |-> username,
                     name |-> IF name /= "" THEN name ELSE username,
                     game_id |-> game_id, selected_team |-> Head(picks)[2],
                     point_value |-> game_row[1].point_value[1]]>> \o rest

SamePickKey(a, b) ==
    a.group_name = b.group_name /\ a.username = b.username /\ a.game_id = b.game_id

\* drop_duplicates(subset=[group_name, username, game_id], keep="last")
DropDuplicatesKeepLast(rows) ==
    LET keep == {i \in 1..Len(rows) :
                    ~\E j \in (i + 1)..Len(rows) : SamePickKey(rows[i], rows[j])}
        F[i \in 0..Len(rows)] ==
            IF i = 0 THEN <<>>
            ELSE IF i \in keep THEN Append(F[i - 1], rows[i]) ELSE F[i - 1]
    IN  F[Len(rows)]

\* FinalPicks leaving the removal of the user's earlier rows to drop_duplicates.
FinalPicks_KeepOld(picks_df, games_df, group_name, username, name, picks) ==
    DropDuplicatesKeepLast(
        picks_df \o NewPickRows(games_df, group_name, username, name, picks))

\* The frame written to picks.csv.
FinalPicks(picks_df, games_df, group_name, username, name, picks) ==
    DropDuplicatesKeepLast(
        DropUserPicks(picks_df, group_name, username)
        \o NewPickRows(games_df, group_name, username, name, picks))

\* FrameToRewrite reading picks.csv again at the moment of the write.
FrameToRewrite_Fresh(d, l) == IF d["picks"].exists THEN d["picks"].rows ELSE <<>>

\* The frame the rewrite starts from: picks_df, as read at the read_picks step.
FrameToRewrite(d, l) == l.picks_df

\* One step of a confirm_picks request: [disk, local] after it.
ConfirmStep(d, l) ==
    LET req      == l.req
        username == Strip(req.username)
        name     == Strip(req.name)
        mask     == UserMask(l.users_df, l.group, username)
    IN  CASE l.pc = "start" ->
               IF username = "" \/ req.picks = <<>> \/ req.picks[1] = <<>>
               THEN [disk |-> d,
                     local |-> Finish(l, 400, ErrorBody("Missing username or picks"))]
               ELSE LET lu == load_users(d)
                    IN  IF UserMask(lu.df, l.group, username) = {}
                        THEN [disk |-> lu.disk,
                              local |-> Finish(l, 400, ErrorBody("User does not exist"))]
                        ELSE [disk |-> lu.disk,
                              local |-> [l EXCEPT !.pc = "save_users", !.users_df = lu.df]]
          [] l.pc = "save_users" ->
               LET df == MarkSubmitted(l.users_df, l.group, username, req.tiebreaker)
               IN  [disk |-> save_users(d, df),
                    local |-> [l EXCEPT !.users_df = df,
                                 !.pc = IF req.tiebreaker /= <<>> THEN "tb_read"
                                        ELSE "read_picks"]]
          [] l.pc = "tb_read" ->
               [disk |-> d,
                local |-> [l EXCEPT !.pc = "tb_write", !.tb_df = d["tiebreakers"]]]
          [] l.pc = "tb_write" ->
               [disk |-> [d EXCEPT !["tiebreakers"] =
                             File(TiebreakerFrame(l.tb_df, l.group, username, name,
                                                  req.tiebreaker[1]))],
                local |-> [l EXCEPT !.pc = "read_picks"]]
          [] l.pc = "read_picks" ->
               [disk |-> d,
                local |-> [l EXCEPT !.pc = "write_picks",
                             !.games_df = load_games(d),
                             !.picks_df = IF d["picks"].exists THEN d["picks"].rows
                                          ELSE <<>>]]
          [] l.pc = "write_picks" ->
               IF PointValueFails(l.games_df, req.picks[1])
               THEN [disk |-> d,
                     local |-> Finish(l, 500, [kind |-> "exception",
                                               error |-> "ValueError: int"])]
               ELSE [disk |-> [d EXCEPT !["picks"] =
                                  File(FinalPicks(FrameToRewrite(d, l), l.games_df, l.group,
                                                  username, name, req.picks[1]))],
                     local |-> Finish(l, 200, [kind |-> "token",
                                               token |-> FirstToken(l.users_df, mask)])]
          [] OTHER -> [disk |-> d, local |-> l]

\* The handler run without interruption.
RECURSIVE RunConfirm(_, _)
RunConfirm(d, l) ==
    IF l.pc = "done" THEN Response(d, l.status, l.body)
    ELSE LET n == ConfirmStep(d, l) IN RunConfirm(n.disk, n.local)

api_confirm_picks(d, group_name, req) == RunConfirm(d, NewLocal(group_name, req))

-----------------------------------------------------------------------------
(* Read endpoints.                                                         *)

\* get_user_picks: the rows with exactly this group and username.
api_get_user_picks(d, group_name, req) ==
    LET username == Strip(req.username)
    IN  IF username = ""
        THEN Response(d, 400, ErrorBody("Missing username"))
        ELSE Response(d, 200,
                 [kind |-> "rows",
                  rows |-> SelectSeq(load_picks(d), LAMBDA r :
                               r.group_name = group_name /\ r.username = username)])

\* picks_locked() / championship_complete() at the time the request reads the clock.
PickDeadline == "deadline"
ChampionshipEnd == "championship_end"
Times == <<"early", PickDeadline, "between", ChampionshipEnd, "late">>

TimeIndex(t) == CHOOSE i \in 1..Len(Times) : Times[i] = t

picks_locked(now) == TimeIndex(now) >= TimeIndex(PickDeadline)

\* championship_complete comparing with the pick deadline.
championship_complete_AtDeadline(now) == TimeIndex(now) >= TimeIndex(PickDeadline)

championship_complete(now) == TimeIndex(now) >= TimeIndex(ChampionshipEnd)

api_user_status(d, group_name, req) ==
    LET username == Strip(req.username)
    IN  IF username = ""
        THEN Response(d, 200, [kind |-> "status", submitted |-> FALSE,
                               locked |-> picks_locked(req.now)])
        ELSE Response(d, 200, [kind |-> "status",
                               submitted |-> user_has_submitted(d, username, group_name),
                               locked |-> picks_locked(req.now)])

api_group_pick_lock_status(d, group_name, req) ==
    Response(d, 200, [kind |-> "lock", picks_locked |-> picks_locked(req.now)])

api_games(d, group_name, req) ==
    Response(d, 200, [kind |-> "rows", rows |-> load_games(d)])

-----------------------------------------------------------------------------
(* Scoring: picks merged with games (a left join on game_id), a pick       *)
(* scored when its game is completed and names the winner.                 *)

RECURSIVE SumSeq(_)
SumSeq(s) == IF s = <<>> THEN 0 ELSE Head(s) + SumSeq(Tail(s))

RECURSIVE Flatten(_)
Flatten(ss) == IF ss = <<>> THEN <<>> ELSE Head(ss) \o Flatten(Tail(ss))

\* (completed == True) & (selected_team == winner).  A blank selected_team is
\* read back from the CSV as NaN, which equals nothing.
Correct(pick, game) ==
    game.completed /\ pick.selected_team /= "" /\ pick.selected_team = game.winner

\* The merged rows of one pick: one per game row with its game_id, or one with
\* NaN winner and completed when there is none.
MergedRows(pick, games_df) ==
    LET gs == GameRows(games_df, pick.game_id)
    IN  IF gs = <<>>
        THEN <<[pick |-> pick, matched |-> FALSE, correct |-> FALSE,
                completed |-> FALSE, game_point_value |-> 0]>>
        ELSE [i \in 1..Len(gs) |->
                [pick |-> pick, matched |-> TRUE, correct |-> Correct(pick, gs[i]),
                 completed |-> gs[i].completed,
                 game_point_value |-> IF gs[i].point_value = <<>> THEN 0
                                      ELSE gs[i].point_value[1]]]

Merge(picks_df, games_df) ==
    Flatten([i \in 1..Len(picks_df) |-> MergedRows(picks_df[i], games_df)])

\* LeaderboardScore with the game's point value in place of the pick's.
LeaderboardScore_GamePoints(m) == IF m.correct THEN m.game_point_value ELSE 0

\* merged["score"] = correct.astype(int) * point_value   (the pick's own value)
LeaderboardScore(m) == IF m.correct THEN m.pick.point_value ELSE 0

\* groupby("username")["score"].sum() for one username
TotalOf(merged, username, score) ==
    SumSeq([i \in 1..Len(merged) |->
               IF merged[i].pick.username = username THEN score[i] ELSE 0])

\* picks_df[["username", "name"]].drop_duplicates(): the pairs, first appearance first
NameMap(picks_df) ==
    LET F[i \in 0..Len(picks_df)] ==
            IF i = 0 THEN <<>>
            ELSE LET p == <<picks_df[i].username, picks_df[i].name>>
                 IN  IF p \in Range(F[i - 1]) THEN F[i - 1] ELSE Append(F[i - 1], p)
    IN  F[Len(picks_df)]

\* totals.merge(name_map, on="username", how="left"): one row per (username, name)
LeaderboardTotals(picks_df, games_df) ==
    LET merged == Merge(picks_df, games_df)
        nm     == NameMap(picks_df)
    IN  [i \in 1..Len(nm) |->
            [username |-> nm[i][1], name |-> nm[i][2],
             total_points |-> TotalOf(merged, nm[i][1],
                                     [k \in 1..Len(merged) |-> LeaderboardScore(merged[k])])]]

\* sort_values("total_points", ascending=False): the sort is not stable, so rows
\* with equal totals come out in any order.
SortedDescending(rows) ==
    LET n     == Len(rows)
        perms == {p \in [1..n -> 1..n] : \A i, j \in 1..n : i /= j => p[i] /= p[j]}
    IN  {[i \in 1..n |-> rows[p[i]]] : p \in
            {q \in perms : \A i \in 1..(n - 1) :
                rows[q[i]].total_points >= rows[q[i + 1]].total_points}}

\* MinRank with ascending=True.
MinRank_Ascending(rows, i) ==
    1 + Cardinality({j \in 1..Len(rows) : rows[j].total_points < rows[i].total_points})

\* rank(method="min", ascending=False)
MinRank(rows, i) ==
    1 + Cardinality({j \in 1..Len(rows) : rows[j].total_points > rows[i].total_points})

WithRank(rows) ==
    [i \in 1..Len(rows) |->
        [username |-> rows[i].username, name |-> rows[i].name,
         total_points |-> rows[i].total_points, rank |-> MinRank(rows, i)]]

GroupPicks(picks_df, group_name) ==
    SelectSeq(picks_df, LAMBDA r : r.group_name = group_name)

\* leaderboard: the responses the handler can give.
api_leaderboard(d, group_name, req) ==
    IF ~d["picks"].exists \/ GroupPicks(d["picks"].rows, group_name) = <<>>
    THEN {Response(d, 200, [kind |-> "leaderboard", leaderboard |-> <<>>])}
    ELSE {Response(d, 200, [kind |-> "leaderboard", leaderboard |-> WithRank(rows)]) :
             rows \in SortedDescending(
                 LeaderboardTotals(GroupPicks(d["picks"].rows, group_name), load_games(d)))}

TopN == 5

Head5(rows) == IF Len(rows) <= TopN THEN rows ELSE SubSeq(rows, 1, TopN)

api_leaderboard_top5(d, group_name, req) ==
    IF ~d["picks"].exists \/ GroupPicks(d["picks"].rows, group_name) = <<>>
    THEN {Response(d, 200, [kind |-> "leaderboard", leaderboard |-> <<>>])}
    ELSE {Response(d, 200, [kind |-> "leaderboard", leaderboard |-> Head5(rows)]) :
             rows \in SortedDescending(
                 LeaderboardTotals(GroupPicks(d["picks"].rows, group_name), load_games(d)))}

-----------------------------------------------------------------------------
(* picks_board.                                                            *)

\* picks_board scores with the game's current point value.
BoardScore(m) == IF m.correct THEN m.game_point_value ELSE 0

LowerUsernames(rows) ==
    [i \in 1..Len(rows) |-> [rows[i] EXCEPT !.username = Lower(@)]]

\* The usernames of a frame, first appearance first.
Usernames(rows) ==
    LET F[i \in 0..Len(rows)] ==
            IF i = 0 THEN <<>>
            ELSE IF rows[i].username \in Range(F[i - 1]) THEN F[i - 1]
                 ELSE Append(F[i - 1], rows[i].username)
    IN  F[Len(rows)]

\* The tiebreaker picks_board shows: from users.csv only, None when blank.
BoardTiebreaker(users_df, username) ==
    LET tb_row == SelectSeq(users_df, LAMBDA r : r.username = username)
    IN  IF tb_row = <<>> THEN NaN ELSE tb_row[1].tiebreaker

BoardUsers(picks_df, games_df, users_df) ==
    LET merged == Merge(picks_df, games_df)
        us     == Usernames(picks_df)
    IN  [i \in 1..Len(us) |->
            LET mine == SelectSeq(merged, LAMBDA m : m.pick.username = us[i])
            IN  [username |-> us[i],
                 name |-> mine[1].pick.name,
                 total_points |-> TotalOf(merged, us[i],
                                         [j \in 1..Len(merged) |-> BoardScore(merged[j])]),
                 picks |-> [k \in 1..Len(mine) |->
                              [game_id |-> mine[k].pick.game_id,
                               pick |-> mine[k].pick.selected_team,
                               correct |-> mine[k].correct,
                               completed |-> mine[k].completed,
                               point_value |-> mine[k].game_point_value]],
                 tiebreaker |-> BoardTiebreaker(users_df, us[i])]]

\* pd.read_csv(picks_path) is not guarded: FileNotFoundError without picks.csv.
api_picks_board(d, group_name, req) ==
    IF ~d["picks"].exists THEN {Crash(d, "FileNotFoundError: picks.csv")}
    ELSE LET lu       == load_users(d)
             users_df == LowerUsernames(
                             SelectSeq(lu.df, LAMBDA r : r.group_name = group_name))
             picks_df == SelectSeq(LowerUsernames(d["picks"].rows),
                                   LAMBDA r : Strip(r.group_name) = Strip(group_name))
         IN  IF picks_df = <<>>
             THEN {Response(lu.disk, 200,
                       [kind |-> "board", games |-> <<>>, users |-> <<>>])}
             \* games_meta: int(row.get("game_point_value", 0)) on a blank cell,
             \* which load_games has turned into ""
             ELSE IF \E g \in Range(load_games(d)) : g.point_value = NaN
             THEN {Crash(lu.disk, "ValueError: int")}
             ELSE {Response(lu.disk, 200,
                       [kind |-> "board", games |-> load_games(d), users |-> rows]) :
                      rows \in SortedDescending(
                                   BoardUsers(picks_df, load_games(d), users_df))}

-----------------------------------------------------------------------------
(* has-submitted, the permalink lookup, group_pot.                         *)

\* api_has_submitted answering true as soon as the user has one pick.
api_has_submitted_AnyPick(d, group_name, req) ==
    Response(d, 200, [kind |-> "submitted",
                      submitted |-> HasPickRow(d, group_name, Strip(req.username))])

api_has_submitted(d, group_name, req) ==
    LET username   == Strip(req.username)
        user_picks == SelectSeq(load_picks(d), LAMBDA r :
                          SameUserLower(r, group_name, username))
    IN  IF username = ""
        THEN Response(d, 200, [kind |-> "submitted", submitted |-> FALSE])
        ELSE Response(d, 200, [kind |-> "submitted",
                               submitted |-> Len(user_picks) = Len(load_games(d))])

\* /api/p/<token>: not wrapped by require_group.
api_get_picks_by_token(d, req) ==
    LET lu  == load_users(d)
        row == SelectSeq(lu.df, LAMBDA r : r.token = req.token)
    IN  IF row = <<>>
        THEN Response(lu.disk, 404, ErrorBody("Invalid link"))
        ELSE Response(lu.disk, 200,
                 [kind |-> "permalink",
                  group |-> row[1].group_name, username |-> row[1].username,
                  name |-> row[1].name, tiebreaker |-> row[1].tiebreaker,
                  picks |-> SelectSeq(load_picks(lu.disk), LAMBDA r :
                                r.group_name = row[1].group_name
                                /\ r.username = row[1].username)])

\* /group_pot/<group_name>: not wrapped by require_group; both files are opened
\* without a guard.
get_group_pot(d, req) ==
    LET same(r)  == Lower(Strip(r.group_name)) = Lower(Strip(req.group))
        info     == SelectSeq(d["group_info"].rows, same)
        buy_in   == IF info = <<>> THEN 0 ELSE info[1].buy_in
        unique_users == {r.username : r \in {x \in Range(d["picks"].rows) : same(x)}}
    IN  IF ~d["group_info"].exists THEN Crash(d, "FileNotFoundError: group_info.csv")
        ELSE IF ~d["picks"].exists THEN Crash(d, "FileNotFoundError: picks.csv")
        ELSE Response(d, 200, [kind |-> "pot",
                               pot |-> Cardinality(unique_users) * buy_in,
                               num_players |-> Cardinality(unique_users)])

-----------------------------------------------------------------------------
(* winner (after the championship).                                        *)

MissingTiebreaker == 9999

\* bowl_name.str.contains("National Championship", case=False)
IsChampionship(bowl_name) ==
    bowl_name \in {"National Championship", "CFP national championship game"}

Abs(x) == IF x < 0 THEN 0 - x ELSE x

\* The order of Python strings, on the usernames and names of the model.
StringOrder == <<"", "Am", "Bo", "Bob", "Cy", "Pat", "Z", "amy", "bob", "cy", "pat", "zed">>

StrIndex(x) == CHOOSE i \in 1..Len(StringOrder) : StringOrder[i] = x

\* groupby(["username", "name"]): the keys in sorted order.
WinnerKeys(picks_df) ==
    LET keys == {<<r.username, r.name>> : r \in Range(picks_df)}
        Before(a, b) == \/ StrIndex(a[1]) < StrIndex(b[1])
                        \/ a[1] = b[1] /\ StrIndex(a[2]) < StrIndex(b[2])
        F[n \in 0..Cardinality(keys)] ==
            IF n = 0 THEN <<>>
            ELSE Append(F[n - 1],
                        CHOOSE k \in keys \ Range(F[n - 1]) :
                            \A o \in keys \ Range(F[n - 1]) : o = k \/ Before(k, o))
    IN  F[Cardinality(keys)]

\* totals.merge(tb_df[["username", "tiebreaker"]], on="username", how="left"),
\* fillna(9999), tb_error.
WinnerRows(picks_df, games_df, tb_df, champ_total_points) ==
    LET merged == Merge(picks_df, games_df)
        keys   == WinnerKeys(picks_df)
        total(k) == SumSeq([i \in 1..Len(merged) |->
                        IF merged[i].pick.username = k[1] /\ merged[i].pick.name = k[2]
                        THEN LeaderboardScore(merged[i]) ELSE 0])
        rowsOf(k) ==
            LET tbs == SelectSeq(tb_df, LAMBDA t : t.username = k[1])
                row(tb) == [username |-> k[1], name |-> k[2],
                            total_points |-> total(k), tiebreaker |-> tb,
                            tb_error |-> Abs(tb - champ_total_points)]
            IN  IF tbs = <<>> THEN <<row(MissingTiebreaker)>>
                ELSE [j \in 1..Len(tbs) |-> row(tbs[j].tiebreaker)]
    IN  Flatten([i \in 1..Len(keys) |-> rowsOf(keys[i])])

\* FirstBest sorting on total_points alone.
FirstBest_PointsOnly(rows) ==
    rows[CHOOSE k \in 1..Len(rows) :
             /\ \A j \in 1..Len(rows) : rows[j].total_points <= rows[k].total_points
             /\ \A j \in 1..(k - 1) : rows[j].total_points < rows[k].total_points]

\* sort_values(["total_points", "tb_error"], ascending=[False, True]).iloc[0]: the
\* sort on two keys is stable, so the first of the best rows.
FirstBest(rows) ==
    LET better(a, b) == \/ a.total_points > b.total_points
                        \/ a.total_points = b.total_points /\ a.tb_error < b.tb_error
        i == CHOOSE k \in 1..Len(rows) :
                 /\ \A j \in 1..Len(rows) : ~better(rows[j], rows[k])
                 /\ \A j \in 1..(k - 1) : better(rows[k], rows[j])
    IN  rows[i]

NoWinner(d) == Response(d, 200, [kind |-> "winner", winner |-> <<>>])

api_winner(d, group_name, req) ==
    LET picks_df   == GroupPicks(load_picks(d), group_name)
        games_df   == load_games(d)
        champ_game == SelectSeq(games_df, LAMBDA g : IsChampionship(g.bowl_name))
        champ_row  == champ_game[1]
        tb_df      == SelectSeq(load_tiebreakers(d), LAMBDA t : t.group_name = group_name)
        winner     == FirstBest(WinnerRows(picks_df, games_df, tb_df,
                          champ_row.home_score[1] + champ_row.away_score[1]))
    IN  IF ~championship_complete(req.now) THEN NoWinner(d)
        ELSE IF picks_df = <<>> THEN NoWinner(d)
        ELSE IF champ_game = <<>> THEN NoWinner(d)
        ELSE IF champ_row.home_score = <<>> \/ champ_row.away_score = <<>>
        THEN NoWinner(d)
        ELSE Response(d, 200,
                 [kind |-> "winner",
                  winner |-> <<[username |-> winner.username, name |-> winner.name,
                                total_points |-> winner.total_points,
                                tiebreaker |-> winner.tiebreaker]>>])

-----------------------------------------------------------------------------
(* Routing.                                                                *)

\* The routes wrapped by require_group.
Wrapped ==
    {"games", "save_session_picks", "create_user", "confirm_picks",
     "get_user_picks", "user_status", "leaderboard_top5", "leaderboard",
     "picks_board", "pick_lock_status", "winner", "has_submitted"}

\* The wrapped handler, called with the group name require_group hands it.
Handler(d, group_name, req) ==
    CASE req.op = "games"              -> {api_games(d, group_name, req)}
      [] req.op = "save_session_picks" -> {api_save_session_picks(d, group_name, req)}
      [] req.op = "create_user"        -> {api_create_user(d, group_name, req)}
      [] req.op = "confirm_picks"      -> {api_confirm_picks(d, group_name, req)}
      [] req.op = "get_user_picks"     -> {api_get_user_picks(d, group_name, req)}
      [] req.op = "user_status"        -> {api_user_status(d, group_name, req)}
      [] req.op = "leaderboard_top5"   -> api_leaderboard_top5(d, group_name, req)
      [] req.op = "leaderboard"        -> api_leaderboard(d, group_name, req)
      [] req.op = "picks_board"        -> api_picks_board(d, group_name, req)
      [] req.op = "pick_lock_status"   -> {api_group_pick_lock_status(d, group_name, req)}
      [] req.op = "winner"             -> {api_winner(d, group_name, req)}
      [] req.op = "has_submitted"      -> {api_has_submitted(d, group_name, req)}

\* require_group without the lower-casing of the requested name.
require_group_CaseSensitive(al, d, req) ==
    IF req.group \notin DOMAIN al
    THEN {Response(d, 404, ErrorBody("invalid_group"))}
    ELSE {[r EXCEPT !.group = <<al[req.group]>>] : r \in Handler(d, al[req.group], req)}

\* require_group: 404 for a group whose lower-cased name is no key of
\* ALLOWED_GROUPS, else the handler with the name as groups.csv spells it.
require_group(al, d, req) ==
    LET group_key == Lower(req.group)
    IN  IF group_key \notin DOMAIN al
        THEN {Response(d, 404, ErrorBody("invalid_group"))}
        ELSE {[r EXCEPT !.group = <<al[group_key]>>] :
                 r \in Handler(d, al[group_key], req)}

\* The responses the application can give to a request.
Handle(al, d, req) ==
    CASE req.op \in Wrapped    -> require_group(al, d, req)
      [] req.op = "permalink"  -> {api_get_picks_by_token(d, req)}
      [] req.op = "group_pot"  -> {get_group_pot(d, req)}

-----------------------------------------------------------------------------
(* The files and requests the model is run on.                             *)

UserRow(group_name, username, name, token) ==
    [group_name |-> group_name, username |-> username, name |-> name,
     token |-> token, has_submitted |-> NaN, tiebreaker |-> NaN]

PickRow(group_name, username, name, game_id, selected_team, point_value) ==
    [group_name |-> group_name, username |-> username, name |-> name,
     game_id |-> game_id, selected_team |-> selected_team,
     point_value |-> point_value]

GameRow(game_id, point_value, winner, completed, bowl_name, home_score, away_score) ==
    [game_id |-> game_id, point_value |-> point_value, winner |-> winner,
     completed |-> completed, bowl_name |-> bowl_name,
     home_score |-> home_score, away_score |-> away_score]

UsersFile == File(<<UserRow("Test", "Bob", "Bo", "tB"), UserRow("Test", "amy", "Am", "tA")>>)

\* Game 1 is final; the championship (game 2) is still open.
GamesOpen ==
    File(<<GameRow("1", <<2>>, "A", TRUE, "Rose Bowl", <<31>>, <<14>>),
           GameRow("2", <<3>>, "", FALSE, "National Championship", NaN, NaN)>>)

\* Both games final; game 3 has a blank point_value cell.
GamesFinal ==
    File(<<GameRow("1", <<2>>, "A", TRUE, "Rose Bowl", <<31>>, <<14>>),
           GameRow("2", <<3>>, "A", TRUE, "National Championship", <<20>>, <<17>>),
           GameRow("3", NaN, "", FALSE, "Fiesta Bowl", NaN, NaN)>>)

\* Game 1 alone, final.
GamesNoChampionship ==
    File(<<GameRow("1", <<2>>, "A", TRUE, "Rose Bowl", <<31>>, <<14>>)>>)

\* Picks kept from an earlier season state: amy's pick of game 1 was written
\* when the game was worth 1 point; cy picked the loser; pat plays in another
\* group.
SeedPicks ==
    File(<<PickRow("Test", "amy", "Am", "1", "A", 1),
           PickRow("Test", "cy", "Cy", "1", "B", 2),
           PickRow("Pals", "pat", "Pat", "1", "A", 2)>>)

InfoFile == File(<<[group_name |-> "Test", buy_in |-> 10]>>)

EmptyDisk == [f \in FileNames |-> Missing]

NoSeed == [exists |-> FALSE, files |-> [f \in Range(SeedFileNames) |-> Missing]]

\* The storage directory and the seed directory when the process starts.
StartConfigs ==
    { \* a live disk, no seed directory in the build
      [disk |-> [EmptyDisk EXCEPT !["groups"] = File(<<"Test">>),
                                  !["users"] = UsersFile,
                                  !["games"] = GamesOpen,
                                  !["group_info"] = InfoFile],
       seed |-> NoSeed],
      \* users.csv alone on the disk, everything else seeded
      [disk |-> [EmptyDisk EXCEPT !["users"] = UsersFile],
       seed |-> [exists |-> TRUE,
                 files |-> [f \in Range(SeedFileNames) |->
                              CASE f = "games"  -> GamesFinal
                                [] f = "groups" -> File(<<" Test", "Pals">>)
                                [] f = "picks"  -> SeedPicks]]],
      \* a season whose games.csv lists no championship game, picks submitted
      [disk |-> [EmptyDisk EXCEPT !["groups"] = File(<<"Test">>),
                                  !["users"] = UsersFile,
                                  !["games"] = GamesNoChampionship,
                                  !["picks"] = File(SubSeq(SeedPicks.rows, 1, 2))],
       seed |-> NoSeed],
      \* an empty disk and a seed directory that holds groups.csv only
      [disk |-> EmptyDisk,
       seed |-> [exists |-> TRUE,
                 files |-> [f \in Range(SeedFileNames) |->
                              IF f = "groups" THEN File(<<"Test">>) ELSE Missing]]] }

Req(op, group, username, name, picks, tiebreaker) ==
    [op |-> op, group |-> group, username |-> username, name |-> name,
     picks |-> picks, tiebreaker |-> tiebreaker, point_value |-> NaN,
     token |-> "", now |-> "early"]

Get(op, group, username, now) ==
    [Req(op, group, username, "", NaN, NaN) EXCEPT !.now = now]

ConfirmRequests ==
    { Req("confirm_picks", "test", "Bob", "Bo", << <<<<"1", "A">>>> >>, NaN),
      Req("confirm_picks", "test", "Bob", "Bo", << <<<<"1", "A">>>> >>, <<30>>),
      Req("confirm_picks", "test", "bob", "", << <<<<"1", "B">>, <<"2", "A">>>> >>, <<40>>),
      Req("confirm_picks", "test", "amy", "Am", << <<<<"1", "A">>, <<"2", "B">>>> >>, <<37>>),
      Req("confirm_picks", "test", "amy", "Am", << <<<<"9", "A">>>> >>, NaN),
      Req("confirm_picks", "test", "amy", "Am", << <<<<"1", "B">>>> >>, <<20000>>),
      Req("confirm_picks", "test", "Bob", "Bo", << <<<<"3", "A">>>> >>, NaN),
      Req("confirm_picks", "test", "zed", "Z", << <<<<"1", "A">>>> >>, NaN),
      Req("confirm_picks", "pals", "amy", "Am", << <<<<"1", "A">>>> >>, <<37>>),
      Req("confirm_picks", "test", "", "Bo", << <<<<"1", "A">>>> >>, NaN),
      Req("confirm_picks", "test", "Bob", "Bo", << <<>> >>, NaN),
      Req("confirm_picks", "Nope", "Bob", "Bo", << <<<<"1", "A">>>> >>, NaN) }

CreateUserRequests ==
    { Req("create_user", "test", "Bob", "Bo", NaN, NaN),
      Req("create_user", "test", "bob", "", NaN, NaN),
      Req("create_user", "test", "amy", "Am", NaN, NaN),
      Req("create_user", "test", "zed", "Z", NaN, NaN),
      Req("create_user", "test", "", "Z", NaN, NaN),
      Req("create_user", "Nope", "zed", "Z", NaN, NaN) }

SessionRequests ==
    { [Req("save_session_picks", "test", "Bob", "Bo", << <<<<"1", "A">>>> >>, NaN)
          EXCEPT !.point_value = <<2>>],
      Req("save_session_picks", "test", "Bob", "Bo", << <<<<"1", "A">>>> >>, NaN),
      [Req("save_session_picks", "Nope", "Bob", "Bo", << <<<<"1", "A">>>> >>, NaN)
          EXCEPT !.point_value = <<2>>] }

ReadRequests ==
    { Get("get_user_picks", "test", "Bob", "early"),
      Get("get_user_picks", "test", "bob ", "early"),
      Get("get_user_picks", "test", "amy", "early"),
      Get("get_user_picks", "test", "", "early"),
      Get("get_user_picks", "Pals", "pat", "early"),
      Get("user_status", "test", "Bob", "early"),
      Get("user_status", "test", "amy", "late"),
      Get("user_status", "test", "", PickDeadline),
      Get("has_submitted", "test", "Bob", "early"),
      Get("has_submitted", "test", "amy", "early"),
      Get("winner", "test", "", "between"),
      Get("winner", "test", "", ChampionshipEnd),
      Get("winner", "Pals", "", "late"),
      Get("pick_lock_status", "test", "", "early"),
      Get("pick_lock_status", "test", "", PickDeadline),
      Get("games", "test", "", "early"),
      Get("group_pot", "test", "", "early"),
      Get("group_pot", "Nope", "", "early") }
    \cup {Get(op, g, "", "early") :
             op \in {"leaderboard", "leaderboard_top5", "picks_board"},
             g \in {"test", "Pals"}}
    \cup {Get(op, "Nope", "Bob", "late") : op \in Wrapped \ {"confirm_picks",
             "create_user", "save_session_picks"}}
    \cup {[Get("permalink", "", "", "early") EXCEPT !.token = t] : t \in {"tB", "tA", "bad"}}

Requests == ConfirmRequests \cup CreateUserRequests \cup SessionRequests \cup ReadRequests

MaxSession == 1

-----------------------------------------------------------------------------
(* update_winners_live.py.  The module body is a loop without exit:        *)
(*   read    pd.read_csv(CSV_PATH)                                         *)
(*   fetch   fetch_games_with_backoff(), one step per attempt              *)
(*   update  the winners worked out row by row, df.to_csv(CSV_PATH)        *)
(*   sleep   time.sleep(900)                                               *)
(* A run of the script is [pc, df, games, attempt, delay, sleeps, rounds]; *)
(* sleeps lists the seconds slept since the round's read, rounds counts    *)
(* the rounds that wrote the file.  pc = "exited" after an exception.      *)

MaxRetries == 2

FirstDelay == 3

DelayCap == 60

RoundSleep == 900

MaxRounds == 2

MANUAL_WINNERS == {<<<<"Northwestern", "Michigan">>, "Michigan">>}

\* apply_manual_winner: the override for the pair in either order, else None.
apply_manual_winner(home, away) ==
    LET hits == {m \in MANUAL_WINNERS : m[1] = <<home, away>> \/ m[1] = <<away, home>>}
    IN  IF hits = {} THEN NaN ELSE <<(CHOOSE m \in hits : TRUE)[2]>>

\* One pass of the loop over df.iterrows() for one row.
UpdatedRow(row, games) ==
    LET manual  == apply_manual_winner(row.home_team, row.away_team)
        matches == SelectSeq(games, LAMBDA g :
                       \/ g.homeTeam = row.home_team /\ g.awayTeam = row.away_team
                       \/ g.homeTeam = row.away_team /\ g.awayTeam = row.home_team)
        match   == matches[1]
        winner  == IF match.homePoints[1] > match.awayPoints[1]
                   THEN match.homeTeam ELSE match.awayTeam
    IN  IF manual /= NaN
        THEN [row EXCEPT !.winner = manual[1], !.completed = TRUE]
        ELSE IF matches = <<>> THEN row
        ELSE IF ~match.completed THEN row
        ELSE IF match.homePoints = NaN \/ match.awayPoints = NaN THEN row
        ELSE IF row.winner /= winner
        THEN [row EXCEPT !.winner = winner, !.completed = TRUE]
        ELSE row

UpdatedFrame(df, games) == [i \in 1..Len(df) |-> UpdatedRow(df[i], games)]

\* A script run at its first statement.
NewRun ==
    [pc |-> "read", df |-> <<>>, games |-> NaN, attempt |-> 0, delay |-> FirstDelay,
     sleeps |-> <<>>, rounds |-> 0]

\* What one attempt of fetch_games_with_backoff can meet.
ApiFailures == {"429", "rate_limit_string", "exception"}

\* FailedAttempt without the doubling of the delay.
FailedAttempt_NoBackoff(run) ==
    [run EXCEPT !.sleeps = Append(@, run.delay),
                !.attempt = @ + 1,
                !.pc = IF run.attempt + 1 > MaxRetries THEN "read" ELSE "fetch"]

\* One failed attempt: sleep(delay), delay doubled up to the cap, attempt + 1.
\* After the last one the function returns None and the loop goes on with
\* `continue`: straight back to the read, without the sleep of a round.
FailedAttempt(run) ==
    [run EXCEPT !.sleeps = Append(@, run.delay),
                !.delay = IF run.delay * 2 < DelayCap THEN run.delay * 2 ELSE DelayCap,
                !.attempt = @ + 1,
                !.pc = IF run.attempt + 1 > MaxRetries THEN "read" ELSE "fetch"]

\* One step of a run: [run, csv] after it.  api is what the attempt meets, a
\* failure of ApiFailures or <<games>> for a payload.
ScriptStep(run, csv, api) ==
    CASE run.pc = "read" ->
           IF ~csv.exists
           THEN [run |-> [run EXCEPT !.pc = "exited"], csv |-> csv]
           ELSE [run |-> [run EXCEPT !.pc = "fetch", !.df = csv.rows, !.games = NaN,
                                     !.attempt = 0, !.delay = FirstDelay,
                                     !.sleeps = <<>>],
                 csv |-> csv]
      [] run.pc = "fetch" ->
           IF api \in ApiFailures
           THEN [run |-> FailedAttempt(run), csv |-> csv]
           ELSE [run |-> [run EXCEPT !.pc = "update", !.games = api], csv |-> csv]
      [] run.pc = "update" ->
           LET df == UpdatedFrame(run.df, run.games[1])
           IN  [run |-> [run EXCEPT !.pc = "sleep", !.df = df, !.games = NaN,
                                    !.rounds = IF @ < MaxRounds THEN @ + 1 ELSE @],
                csv |-> File(df)]
      [] run.pc = "sleep" ->
           [run |-> [run EXCEPT !.pc = "read", !.sleeps = Append(@, RoundSleep)],
            csv |-> csv]
      [] OTHER -> [run |-> run, csv |-> csv]

TestGameRow(home_team, away_team, winner, completed) ==
    [home_team |-> home_team, away_team |-> away_team,
     winner |-> winner, completed |-> completed]

ApiGame(homeTeam, awayTeam, completed, homePoints, awayPoints) ==
    [homeTeam |-> homeTeam, awayTeam |-> awayTeam, completed |-> completed,
     homePoints |-> homePoints, awayPoints |-> awayPoints]

\* data/test_games.csv before the first round.
TestGames ==
    File(<<TestGameRow("Ohio State", "Texas", "", FALSE),
           TestGameRow("Northwestern", "Michigan", "", FALSE)>>)

\* Payloads of the games API: nothing about the game, the game in progress, the
\* game final (either team at home), the game final without points.
ApiPayloads ==
    { <<>>,
      <<ApiGame("Ohio State", "Texas", FALSE, <<7>>, <<3>>)>>,
      <<ApiGame("Ohio State", "Texas", TRUE, <<24>>, <<21>>)>>,
      <<ApiGame("Texas", "Ohio State", TRUE, <<24>>, <<21>>)>>,
      <<ApiGame("Ohio State", "Texas", TRUE, NaN, NaN)>> }

ApiOutcomes == ApiFailures \cup {<<g>> : g \in ApiPayloads}

\* run_update_script: "launch" before subprocess.run, "child" while it waits for
\* the child, "sleep" in time.sleep(900).
SchedOff == [pc |-> "off", child |-> [NewRun EXCEPT !.pc = "exited"]]

\* internal_update_winners: "import" while `import update_winners_live` runs the
\* module body, "done" with the status answered.
HookIdle == [pc |-> "idle", run |-> [NewRun EXCEPT !.pc = "exited"], status |-> 0]

-----------------------------------------------------------------------------
(* The state machine.                                                      *)

\* resp.changed: the request changed a file; resp.repeat: it is the request served
\* just before, and that one had changed a file.
NoResp == [op |-> "none", req |-> Get("none", "", "", "early"), status |-> 0,
           body |-> NoBody, group |-> <<>>, changed |-> FALSE, repeat |-> FALSE]

Procs == {1, 2}

Idle == [p \in Procs |-> [NewLocal("", Get("none", "", "", "early")) EXCEPT !.pc = "done"]]

Init ==
    /\ \E c \in StartConfigs : disk = c.disk /\ seed = c.seed
    /\ allowed = <<>>
    /\ pc = "boot"
    /\ resp = NoResp
    /\ procs = Idle
    /\ sched = SchedOff /\ hook = HookIdle /\ games_csv = Missing

\* Importing app.py: seed_disk(), then ALLOWED_GROUPS is read from groups.csv.
Boot ==
    /\ pc = "boot"
    /\ disk' = seed_disk(disk, seed)
    /\ allowed' \in AllowedGroupMaps(disk')
    /\ pc' = "serving"
    /\ UNCHANGED <<seed, resp, procs, jobs>>

\* A redeploy starts the process again on the same disk.
Redeploy ==
    /\ pc = "serving"
    /\ pc' = "boot"
    /\ allowed' = <<>>
    /\ resp' = NoResp
    /\ UNCHANGED <<disk, seed, procs, jobs>>

\* One request served from start to end.
Serve(op, reqs) ==
    /\ pc = "serving"
    /\ \E req \in reqs :
         /\ req.op = op
         /\ \E r \in Handle(allowed, disk, req) :
              /\ disk' = r.disk
              /\ resp' = [op |-> op, req |-> req, status |-> r.status,
                          body |-> r.body, group |-> r.group,
                          changed |-> r.disk /= disk,
                          repeat |-> resp.req = req /\ resp.changed]
    /\ UNCHANGED <<seed, allowed, pc, procs, jobs>>

CreateUser == Serve("create_user", CreateUserRequests)

ConfirmPicks == Serve("confirm_picks", ConfirmRequests)

SaveSessionPicks ==
    /\ Len(disk["session"].rows) < MaxSession
    /\ Serve("save_session_picks", SessionRequests)

GetUserPicks == Serve("get_user_picks", ReadRequests)

UserStatus == Serve("user_status", ReadRequests)

Leaderboard == Serve("leaderboard", ReadRequests)

LeaderboardTop5 == Serve("leaderboard_top5", ReadRequests)

PicksBoard == Serve("picks_board", ReadRequests)

PickLockStatus == Serve("pick_lock_status", ReadRequests)

Winner == Serve("winner", ReadRequests)

HasSubmitted == Serve("has_submitted", ReadRequests)

Games == Serve("games", ReadRequests)

PicksByToken == Serve("permalink", ReadRequests)

GroupPot == Serve("group_pot", ReadRequests)

Next ==
    \/ Boot
    \/ Redeploy
    \/ CreateUser
    \/ ConfirmPicks
    \/ SaveSessionPicks
    \/ GetUserPicks
    \/ UserStatus
    \/ Leaderboard
    \/ LeaderboardTop5
    \/ PicksBoard
    \/ PickLockStatus
    \/ Winner
    \/ HasSubmitted
    \/ Games
    \/ PicksByToken
    \/ GroupPot

Spec == Init /\ [][Next]_vars

-----------------------------------------------------------------------------
(* Two confirm_picks requests of two users served at the same time: each   *)
(* request takes its steps in order, the steps of the two interleave.      *)

\* A started server: the disk seeded, ALLOWED_GROUPS loaded.
RaceDisks == {seed_disk(c.disk, c.seed) : c \in {x \in StartConfigs : x.disk["users"].exists}}

BobRequests == {r \in ConfirmRequests : Lower(r.username) = "bob" /\ r.group = "test"}

AmyRequests == {r \in ConfirmRequests : r.username = "amy" /\ r.group = "test"}

InitRace ==
    /\ disk \in RaceDisks
    /\ seed = NoSeed
    /\ allowed \in AllowedGroupMaps(disk)
    /\ pc = "serving"
    /\ resp = NoResp
    /\ sched = SchedOff /\ hook = HookIdle /\ games_csv = Missing
    /\ \E b \in BobRequests, a \in AmyRequests :
          procs = [p \in Procs |->
                      IF p = 1 THEN NewLocal(allowed[Lower(b.group)], b)
                      ELSE NewLocal(allowed[Lower(a.group)], a)]

\* Request p takes its next step.
ConfirmStepBy(p) ==
    /\ procs[p].pc /= "done"
    /\ LET n == ConfirmStep(disk, procs[p])
       IN  /\ disk' = n.disk
           /\ procs' = [procs EXCEPT ![p] = n.local]
    /\ UNCHANGED <<seed, allowed, pc, resp, jobs>>

NextRace == \E p \in Procs : ConfirmStepBy(p)

SpecRace == InitRace /\ [][NextRace]_vars

-----------------------------------------------------------------------------
(* Two create-user requests served at the same time.  The steps of one     *)
(* request: start (validate the body, load_users), load_picks, lookup (the *)
(* branch on existing_user).  Its local state is [pc, req, group,          *)
(* users_df, picks_df, status, body].                                      *)

NewCreate(group_name, req) ==
    [pc |-> "start", req |-> req, group |-> group_name,
     users_df |-> <<>>, picks_df |-> <<>>, status |-> 0, body |-> NoBody]

\* CreateOutcome appending a row for the user to the file as it is now, without
\* the look at existing_user.
CreateOutcome_AppendUnchecked(d, l) ==
    [disk |-> save_users(d, Append(d["users"].rows,
                 UserRow(l.group, Strip(l.req.username), Strip(l.req.name), "new"))),
     local |-> Finish(l, 200, [kind |-> "token", token |-> "new",
                               new |-> TRUE, resume |-> FALSE])]

\* The branch on existing_user.  A new user: generate_token() raises NameError
\* before anything is written.
CreateOutcome(d, l) ==
    LET username      == Strip(l.req.username)
        existing_user == SelectSeq(l.users_df, LAMBDA r :
                             SameUserLower(r, l.group, username))
        user_picks    == SelectSeq(l.picks_df, LAMBDA r :
                             SameUserLower(r, l.group, username))
    IN  [disk |-> d,
         local |->
            IF existing_user = <<>>
            THEN Finish(l, 500, [kind |-> "exception",
                                 error |-> "NameError: generate_token"])
            ELSE IF Len(user_picks) > 0
            THEN Finish(l, 400,
                     ErrorBody("Username already exists and has submitted picks"))
            ELSE Finish(l, 200, [kind |-> "token", token |-> existing_user[1].token,
                                 new |-> FALSE, resume |-> TRUE])]

\* One step of a create-user request: [disk, local] after it.
CreateStep(d, l) ==
    CASE l.pc = "start" ->
           IF Strip(l.req.username) = "" \/ Strip(l.req.name) = ""
           THEN [disk |-> d,
                 local |-> Finish(l, 400, ErrorBody("Missing username or name"))]
           ELSE LET lu == load_users(d)
                IN  [disk |-> lu.disk,
                     local |-> [l EXCEPT !.pc = "load_picks", !.users_df = lu.df]]
      [] l.pc = "load_picks" ->
           [disk |-> d, local |-> [l EXCEPT !.pc = "lookup", !.picks_df = load_picks(d)]]
      [] l.pc = "lookup" -> CreateOutcome(d, l)
      [] OTHER -> [disk |-> d, local |-> l]

\* The create-user bodies sent to the group: the ones of CreateUserRequests and
\* one more spelling of a new username.
CreateRaceRequests ==
    {r \in CreateUserRequests : r.group = "test"}
    \cup {Req("create_user", "test", "Zed", "Z", NaN, NaN)}

InitUsers ==
    /\ disk \in {seed_disk(c.disk, c.seed) : c \in StartConfigs}
    /\ seed = NoSeed
    /\ allowed \in AllowedGroupMaps(disk)
    /\ pc = "serving"
    /\ resp = NoResp
    /\ sched = SchedOff /\ hook = HookIdle /\ games_csv = Missing
    /\ \E a, b \in CreateRaceRequests :
          procs = [p \in Procs |->
                      NewCreate(allowed[Lower(a.group)], IF p = 1 THEN a ELSE b)]

\* Request p takes its next step.
CreateStepBy(p) ==
    /\ procs[p].pc /= "done"
    /\ LET n == CreateStep(disk, procs[p])
       IN  /\ disk' = n.disk
           /\ procs' = [procs EXCEPT ![p] = n.local]
    /\ UNCHANGED <<seed, allowed, pc, resp, jobs>>

\* Request p is answered and the next create-user request arrives in its place.
NextCreateArrives(p) ==
    /\ procs[p].pc = "done"
    /\ \E r \in CreateRaceRequests :
          procs' = [procs EXCEPT ![p] = NewCreate(allowed[Lower(r.group)], r)]
    /\ UNCHANGED <<disk, seed, allowed, pc, resp, jobs>>

NextUsers == \E p \in Procs : CreateStepBy(p) \/ NextCreateArrives(p)

SpecUsers == InitUsers /\ [][NextUsers]_vars

-----------------------------------------------------------------------------
(* The background jobs: the scheduler thread with the child process it     *)
(* waits for, and POST /internal/update_winners, which runs the same       *)
(* module body inside the request.  Both rewrite data/test_games.csv.      *)

InitJobs ==
    /\ disk = EmptyDisk /\ seed = NoSeed /\ allowed = <<>>
    /\ pc = "serving" /\ resp = NoResp /\ procs = Idle
    /\ sched = [SchedOff EXCEPT !.pc = "launch"]
    /\ hook = HookIdle
    /\ games_csv \in {Missing, TestGames}

\* subprocess.run(["python3", "update_winners_live.py"], check=True): the child
\* starts, or the call itself raises and the generic except branch takes it.
Launch ==
    /\ sched.pc = "launch"
    /\ \/ sched' = [pc |-> "child", child |-> NewRun]
       \/ sched' = [sched EXCEPT !.pc = "sleep"]
    /\ UNCHANGED <<web, hook, games_csv>>

\* The child process takes a step of the module body.
ChildStep ==
    /\ sched.pc = "child" /\ sched.child.pc /= "exited"
    /\ \E api \in ApiOutcomes :
          LET n == ScriptStep(sched.child, games_csv, api)
          IN  /\ sched' = [sched EXCEPT !.child = n.run]
              /\ games_csv' = n.csv
    /\ UNCHANGED <<web, hook>>

\* The child ended with an exception: subprocess.run raises CalledProcessError,
\* run_update_script prints it and goes on to its sleep.
ChildFailed ==
    /\ sched.pc = "child" /\ sched.child.pc = "exited"
    /\ sched' = [sched EXCEPT !.pc = "sleep"]
    /\ UNCHANGED <<web, hook, games_csv>>

\* time.sleep(900) of run_update_script is over.
SchedulerWakes ==
    /\ sched.pc = "sleep"
    /\ sched' = [sched EXCEPT !.pc = "launch"]
    /\ UNCHANGED <<web, hook, games_csv>>

\* POST /internal/update_winners arrives: `import update_winners_live` starts to
\* run the module body.
PostUpdateWinners ==
    /\ hook.pc \in {"idle", "done"}
    /\ hook' = [pc |-> "import", run |-> NewRun, status |-> 0]
    /\ UNCHANGED <<web, sched, games_csv>>

\* The request takes a step of the module body.
ImportStep ==
    /\ hook.pc = "import" /\ hook.run.pc /= "exited"
    /\ \E api \in ApiOutcomes :
          LET n == ScriptStep(hook.run, games_csv, api)
          IN  /\ hook' = [hook EXCEPT !.run = n.run]
              /\ games_csv' = n.csv
    /\ UNCHANGED <<web, sched>>

\* The module body raised: Flask answers 500.  (The body has no other way out,
\* so update_winners_live.main(), a name the module does not define, and the
\* return of {"status": "ok"} are never reached.)
ImportFailed ==
    /\ hook.pc = "import" /\ hook.run.pc = "exited"
    /\ hook' = [hook EXCEPT !.pc = "done", !.status = 500]
    /\ UNCHANGED <<web, sched, games_csv>>

SchedulerNext == Launch \/ ChildStep \/ ChildFailed \/ SchedulerWakes

RequestNext == ImportStep \/ ImportFailed

NextJobs ==
    \/ Launch
    \/ ChildStep
    \/ ChildFailed
    \/ SchedulerWakes
    \/ PostUpdateWinners
    \/ ImportStep
    \/ ImportFailed

\* The scheduler thread with its child, and a request being served, keep running.
SpecJobs ==
    InitJobs /\ [][NextJobs]_vars /\ WF_vars(SchedulerNext) /\ WF_vars(RequestNext)

-----------------------------------------------------------------------------
(* Properties.                                                             *)

\* A step that serves a request (not the start-up code, not a redeploy).
Served == pc = "serving" /\ pc' = "serving"

GameIds(d) == {g.game_id : g \in Range(load_games(d))}

\* The username a user is registered under: the one of the users.csv row that
\* confirm_picks matched.
RegisteredAs(d, group_name, username) ==
    {r.username : r \in {x \in Range(d["users"].rows) :
                            SameUserLower(x, group_name, username)}}

\* C1: after a successful confirm_picks with picks P, get_user_picks for the same
\* group and the username the user is registered under returns, for every
\* game_id of P that games.csv holds, a row carrying the submitted selected_team.
C1_SubmittedPickRetrievable ==
    (resp.op = "confirm_picks" /\ resp.status = 200) =>
        \A u \in RegisteredAs(disk, resp.group[1], resp.req.username) :
            \A r \in Handle(allowed, disk,
                            Get("get_user_picks", resp.req.group, u, "early")) :
                /\ r.status = 200
                /\ \A i \in 1..Len(resp.req.picks[1]) :
                      resp.req.picks[1][i][1] \in GameIds(disk) =>
                          \E row \in Range(r.body.rows) :
                              /\ row.game_id = resp.req.picks[1][i][1]
                              /\ row.selected_team = resp.req.picks[1][i][2]

\* The sum of f over a finite set.
RECURSIVE SumOver(_, _)
SumOver(S, f) ==
    IF S = {} THEN 0
    ELSE LET x == CHOOSE y \in S : TRUE IN f[x] + SumOver(S \ {x}, f)

\* What one row of picks.csv is worth: its own point value when some game of
\* games.csv with its game_id is completed and won by the selected team, else 0.
PickWorth(d, pick) ==
    IF \E g \in Range(load_games(d)) :
           g.game_id = pick.game_id /\ g.completed /\ g.winner = pick.selected_team
    THEN pick.point_value ELSE 0

ExpectedTotal(d, group_name, username) ==
    LET rows == d["picks"].rows
        mine == {i \in 1..Len(rows) :
                    rows[i].group_name = group_name /\ rows[i].username = username}
    IN  SumOver(mine, [i \in mine |-> PickWorth(d, rows[i])])

\* C2: every entry of a group's leaderboard carries, as total_points, the sum of
\* the point values of that user's picks in the group whose game is completed
\* and won by the selected team; every other pick contributes 0.
C2_LeaderboardTotals ==
    (resp.op = "leaderboard" /\ resp.status = 200) =>
        \A e \in Range(resp.body.leaderboard) :
            e.total_points = ExpectedTotal(disk, resp.group[1], e.username)

\* A leaderboard with a scoring pick worth something else than its game is now,
\* and an entry whose picks score nothing.
C2_Witness ==
    /\ resp.op = "leaderboard" /\ resp.status = 200
    /\ \E e \in Range(resp.body.leaderboard) : e.total_points = 0
    /\ \E e \in Range(resp.body.leaderboard) :
          /\ e.total_points > 0
          /\ \E p \in Range(disk["picks"].rows), g \in Range(load_games(disk)) :
                /\ p.username = e.username /\ p.group_name = resp.group[1]
                /\ g.game_id = p.game_id /\ g.completed /\ g.winner = p.selected_team
                /\ g.point_value /= <<p.point_value>>

\* C3: in the full leaderboard a strictly higher total gives a strictly smaller
\* rank, equal totals give equal ranks, and every rank is 1 plus the number of
\* users with strictly more points.
C3_RanksMonotonic ==
    (resp.op = "leaderboard" /\ resp.status = 200) =>
        LET lb == Range(resp.body.leaderboard)
        IN  /\ \A a, b \in lb :
                  /\ a.total_points > b.total_points => a.rank < b.rank
                  /\ a.total_points = b.total_points => a.rank = b.rank
            /\ \A a \in lb :
                  a.rank = 1 + Cardinality({b.username : b \in
                                 {x \in lb : x.total_points > a.total_points}})

\* A leaderboard of three users: two tied ahead of a third.
C3_Witness ==
    /\ resp.op = "leaderboard" /\ resp.status = 200
    /\ \E a, b, c \in Range(resp.body.leaderboard) :
          /\ a.username /= b.username
          /\ a.total_points = b.total_points /\ a.rank = 1 /\ b.rank = 1
          /\ c.total_points < a.total_points /\ c.rank = 3

PicksReaders ==
    {"leaderboard", "leaderboard_top5", "picks_board", "get_user_picks",
     "user_status", "has_submitted", "winner", "group_pot"}

\* C6: without picks.csv every endpoint that reads picks answers with its empty
\* result, none fails with an error.
C6_MissingPicksIsEmptyTable ==
    (/\ resp.op \in PicksReaders
     /\ resp.group /= <<>> \/ resp.op = "group_pot"
     /\ ~disk["picks"].exists) =>
        /\ resp.status /= 500
        /\ resp.body.kind = "leaderboard" => resp.body.leaderboard = <<>>
        /\ resp.body.kind = "board" => resp.body.users = <<>>
        /\ resp.body.kind = "rows" => resp.body.rows = <<>>

\* C7: seed_disk leaves every file the disk holds as it is, copies a missing
\* games.csv, groups.csv or picks.csv exactly when the seed directory holds it,
\* touches no other file, and run again changes nothing.
C7_SeedNeverOverwrites ==
    [][(pc = "boot" /\ pc' = "serving") =>
          /\ \A f \in FileNames :
                disk'[f] = IF /\ f \in {"games", "groups", "picks"}
                              /\ ~disk[f].exists
                              /\ seed.exists /\ seed.files[f].exists
                           THEN seed.files[f]
                           ELSE disk[f]
          /\ seed_disk(disk', seed) = disk']_vars

\* The process has just started again on a disk whose picks.csv holds
\* submissions the seed copy does not.
C7_Witness ==
    /\ pc = "serving" /\ resp = NoResp
    /\ seed.exists /\ seed.files["picks"].exists
    /\ disk["picks"].exists /\ disk["picks"] /= seed.files["picks"]

\* The group names groups.csv holds.
GroupsOnDisk(d) ==
    IF d["groups"].exists THEN {Strip(d["groups"].rows[i]) : i \in 1..Len(d["groups"].rows)}
    ELSE {}

\* C8: behind require_group, a request for a group that matches no name of
\* groups.csv case-insensitively gets 404 invalid_group, no handler runs and no
\* file changes; for a matching name the handler gets the spelling of groups.csv.
C8_RequireGroup ==
    [][(Served /\ resp'.op \in Wrapped) =>
          LET matches == {g \in GroupsOnDisk(disk) : Lower(g) = Lower(resp'.req.group)}
          IN  IF matches = {}
              THEN /\ resp'.status = 404
                   /\ resp'.body = ErrorBody("invalid_group")
                   /\ resp'.group = <<>>
                   /\ disk' = disk
              ELSE \E g \in matches : resp'.group = <<g>>]_vars

\* A confirm_picks turned away with invalid_group, and (another state) one that
\* ran under the canonical name though it was asked for in lower case.
C8_Witness ==
    /\ resp.op = "confirm_picks"
    /\ resp.status = 404 /\ resp.body = ErrorBody("invalid_group")

\* C9: create-user (with a username and a name) for a user with no row in
\* users.csv appends exactly one row for that user, with a new token, leaves the
\* other rows as they are and answers 200 with that token and new = true.
C9_CreateUserAppendsRow ==
    [][(/\ Served /\ resp'.op = "create_user" /\ resp'.group /= <<>>
        /\ Strip(resp'.req.username) /= "" /\ Strip(resp'.req.name) /= ""
        /\ ~HasUserRow(disk, resp'.group[1], Strip(resp'.req.username))) =>
          /\ resp'.status = 200
          /\ resp'.body.kind = "token" /\ resp'.body.new
          /\ Len(disk'["users"].rows) = Len(disk["users"].rows) + 1
          /\ SubSeq(disk'["users"].rows, 1, Len(disk["users"].rows)) = disk["users"].rows
          /\ LET row == disk'["users"].rows[Len(disk'["users"].rows)]
             IN  /\ row.group_name = resp'.group[1]
                 /\ row.username = Strip(resp'.req.username)
                 /\ row.token = resp'.body.token
                 /\ \A r \in Range(disk["users"].rows) : r.token /= row.token]_vars

\* C10 as stated: create-user for a user with a row in users.csv changes neither
\* users.csv nor picks.csv, answers 400 when the user has picks and else the
\* stored token with resume = true.
C10_ExistingUserResumes ==
    [][(/\ Served /\ resp'.op = "create_user" /\ resp'.group /= <<>>
        /\ HasUserRow(disk, resp'.group[1], Strip(resp'.req.username))) =>
          /\ disk'["users"] = disk["users"] /\ disk'["picks"] = disk["picks"]
          /\ IF HasPickRow(disk, resp'.group[1], Strip(resp'.req.username))
             THEN resp'.status = 400 /\ resp'.body.kind = "error"
             ELSE /\ resp'.status = 200 /\ resp'.body.kind = "token"
                  /\ resp'.body.resume
                  /\ \E r \in Range(disk["users"].rows) :
                        /\ SameUserLower(r, resp'.group[1], Strip(resp'.req.username))
                        /\ r.token = resp'.body.token]_vars

\* C10, amended: the same, except that a request without a name is answered 400
\* (and changes nothing) whether or not the user has picks.
C10_ExistingUserResumesWithName ==
    [][(/\ Served /\ resp'.op = "create_user" /\ resp'.group /= <<>>
        /\ HasUserRow(disk, resp'.group[1], Strip(resp'.req.username))) =>
          /\ disk'["users"] = disk["users"] /\ disk'["picks"] = disk["picks"]
          /\ IF \/ HasPickRow(disk, resp'.group[1], Strip(resp'.req.username))
                \/ Strip(resp'.req.name) = ""
             THEN resp'.status = 400 /\ resp'.body.kind = "error"
             ELSE /\ resp'.status = 200 /\ resp'.body.kind = "token"
                  /\ resp'.body.resume
                  /\ \E r \in Range(disk["users"].rows) :
                        /\ SameUserLower(r, resp'.group[1], Strip(resp'.req.username))
                        /\ r.token = resp'.body.token]_vars

\* A registered user without picks resumed with the stored token.
C10_Witness ==
    /\ resp.op = "create_user" /\ resp.status = 200
    /\ resp.body.kind = "token" /\ resp.body.resume
    /\ HasUserRow(disk, resp.group[1], Strip(resp.req.username))
    /\ ~HasPickRow(disk, resp.group[1], Strip(resp.req.username))

\* The rows a request adds to picks.csv.
RowsOf(l) ==
    Range(NewPickRows(l.games_df, l.group, Strip(l.req.username), Strip(l.req.name),
                      l.req.picks[1]))

BothSucceeded == \A p \in Procs : procs[p].pc = "done" /\ procs[p].status = 200

\* C4: with no lock around picks.csv, when both requests have returned success
\* the file is what one of them, q, computed from the frame it had read; the rows
\* of the other are in the file only if q read after they were written, so two
\* requests that both read before either wrote lose the rows of one.
C4_LastWriterWins ==
    BothSucceeded =>
        \E q \in Procs :
            /\ disk["picks"].rows =
                   FinalPicks(procs[q].picks_df, procs[q].games_df, procs[q].group,
                              Strip(procs[q].req.username), Strip(procs[q].req.name),
                              procs[q].req.picks[1])
            /\ \A p \in Procs \ {q} :
                  (RowsOf(procs[p]) \subseteq Range(disk["picks"].rows))
                      <=> (RowsOf(procs[p]) \subseteq Range(procs[q].picks_df))

\* The lost update: both requests returned success, both submitted picks of
\* games that exist, and picks.csv holds no row of one of the two users.
C4_LostUpdate ==
    /\ BothSucceeded
    /\ \A p \in Procs : RowsOf(procs[p]) /= {}
    /\ \E p \in Procs : ~HasPickRow(disk, procs[p].group, procs[p].req.username)

\* The rows of the three files a submission writes.
SubmissionFiles(d) == <<d["users"].rows, d["tiebreakers"].rows, d["picks"].rows>>

\* C11: confirm_picks with an empty username, with no picks or an empty picks
\* dict, or for a username without a row of the group in users.csv (lower-cased
\* comparison) answers 400 and leaves the rows of users.csv, tiebreakers.csv and
\* picks.csv as they were; tiebreakers.csv and picks.csv are not even created.
C11_RejectedSubmissionChangesNothing ==
    [][(/\ Served /\ resp'.op = "confirm_picks" /\ resp'.group /= <<>>
        /\ \/ Strip(resp'.req.username) = ""
           \/ resp'.req.picks = <<>>
           \/ resp'.req.picks[1] = <<>>
           \/ ~\E r \in Range(disk["users"].rows) :
                  /\ Lower(r.group_name) = Lower(resp'.group[1])
                  /\ Lower(r.username) = Lower(Strip(resp'.req.username))) =>
          /\ resp'.status = 400 /\ resp'.body.kind = "error"
          /\ SubmissionFiles(disk') = SubmissionFiles(disk)
          /\ disk'["tiebreakers"] = disk["tiebreakers"]
          /\ disk'["picks"] = disk["picks"]]_vars

\* A submission with picks and a tiebreaker turned away because its user is
\* registered in another group only, on a disk that holds users and picks.
C11_Witness ==
    /\ resp.op = "confirm_picks" /\ resp.status = 400
    /\ resp.body = ErrorBody("User does not exist")
    /\ resp.req.tiebreaker /= <<>>
    /\ \E r \in Range(disk["users"].rows) :
          Lower(r.username) = Lower(resp.req.username)
    /\ disk["picks"].rows /= <<>>

\* GET /api/p/<token>
Permalink(token) == [Get("permalink", "", "", "early") EXCEPT !.token = token]

\* C12: the token a successful confirm_picks returned resolves, through
\* /api/p/<token>, to the group and the username of the submitting user and to
\* exactly the rows picks.csv holds for that user; a token of no user gets 404.
C12_PermalinkResolves ==
    /\ (resp.op = "confirm_picks" /\ resp.status = 200) =>
          \A r \in Handle(allowed, disk, Permalink(resp.body.token)) :
              /\ r.status = 200
              /\ r.body.group = resp.group[1]
              /\ Lower(r.body.username) = Lower(Strip(resp.req.username))
              /\ r.body.picks =
                     SelectSeq(disk["picks"].rows, LAMBDA p :
                         SameUserLower(p, resp.group[1], Strip(resp.req.username)))
    /\ (resp.op = "permalink"
           /\ \A u \in Range(disk["users"].rows) : u.token /= resp.req.token) =>
          resp.status = 404

\* The National Championship rows of games.csv.
ChampionshipGames(d) ==
    SelectSeq(load_games(d), LAMBDA g : IsChampionship(g.bowl_name))

\* The group has a row in picks.csv, and the first National Championship row of
\* games.csv carries both scores.
WinnerDataComplete(d, group_name) ==
    /\ \E p \in Range(d["picks"].rows) : p.group_name = group_name
    /\ ChampionshipGames(d) /= <<>>
    /\ ChampionshipGames(d)[1].home_score /= <<>>
    /\ ChampionshipGames(d)[1].away_score /= <<>>

\* C13: the winner endpoint answers winner = null at every time before
\* CHAMPIONSHIP_END_PST whatever the files hold, and from that time on still
\* answers null when the group has no picks, games.csv has no National
\* Championship game, or that game lacks an integer home or away score.
C13_NoWinnerBeforeChampionshipEnd ==
    (/\ resp.op = "winner" /\ resp.group /= <<>>
     /\ \/ TimeIndex(resp.req.now) < TimeIndex(ChampionshipEnd)
        \/ ~WinnerDataComplete(disk, resp.group[1])) =>
        /\ resp.status = 200
        /\ resp.body = [kind |-> "winner", winner |-> <<>>]

\* Asked before the championship end, with picks and a final championship score
\* on the disk, the endpoint names nobody.
C13_Witness ==
    /\ resp.op = "winner" /\ resp.group /= <<>>
    /\ TimeIndex(resp.req.now) < TimeIndex(ChampionshipEnd)
    /\ TimeIndex(resp.req.now) > TimeIndex(PickDeadline)
    /\ WinnerDataComplete(disk, resp.group[1])
    /\ resp.body = [kind |-> "winner", winner |-> <<>>]

\* After the championship end: picks, but no championship game in games.csv.
C13_NoChampionshipGame ==
    /\ resp.op = "winner" /\ resp.group /= <<>>
    /\ championship_complete(resp.req.now)
    /\ \E p \in Range(disk["picks"].rows) : p.group_name = resp.group[1]
    /\ ChampionshipGames(disk) = <<>>

\* After the championship end: picks and a championship game without scores.
C13_ScoresMissing ==
    /\ resp.op = "winner" /\ resp.group /= <<>>
    /\ championship_complete(resp.req.now)
    /\ \E p \in Range(disk["picks"].rows) : p.group_name = resp.group[1]
    /\ ChampionshipGames(disk) /= <<>>
    /\ ChampionshipGames(disk)[1].home_score = <<>>

\* After the championship end: a group without picks.
C13_NoPicks ==
    /\ resp.op = "winner" /\ resp.group /= <<>>
    /\ championship_complete(resp.req.now)
    /\ ~\E p \in Range(disk["picks"].rows) : p.group_name = resp.group[1]

\* The users of a group in the winner computation: the usernames of its picks.
GroupUsers(d, group_name) ==
    {p.username : p \in {x \in Range(d["picks"].rows) : x.group_name = group_name}}

\* The tiebreaker guess tiebreakers.csv holds for a user of a group.
Guesses(d, group_name, username) ==
    {t.tiebreaker : t \in {x \in Range(d["tiebreakers"].rows) :
                              x.group_name = group_name /\ x.username = username}}

\* home_score + away_score of the championship game.
CombinedScore(d) ==
    ChampionshipGames(d)[1].home_score[1] + ChampionshipGames(d)[1].away_score[1]

C15_Partial ==
    /\ resp.op = "has_submitted" /\ resp.status = 200
    /\ ~resp.body.submitted
    /\ HasPickRow(disk, resp.group[1], Strip(resp.req.username))

\* C16: the scheduler runs the polling script again and again: whenever it has
\* launched update_winners_live.py it later stands before the next launch.
C16_LaunchesAgain == (sched.pc = "child") ~> (sched.pc = "launch")

\* C16, the part about failures: a child that ended with an error, or a launch
\* that raised, sends the scheduler to its sleep and from there to the next
\* launch.
C16_FailureKeepsLoop ==
    ((sched.pc = "child" /\ sched.child.pc = "exited") \/ sched.pc = "sleep")
        ~> (sched.pc = "launch")

\* C17: a POST to /internal/update_winners ends with {"status": "ok"} after
\* one update: the request never writes the file a second time, is answered
\* with status 200, and has then written the file exactly once.
C17_OneUpdateThenOk ==
    /\ hook.run.rounds <= 1
    /\ hook.pc = "done" => (hook.status = 200 /\ hook.run.rounds = 1)

\* The rows of picks.csv of a user (lower-cased comparison), and the others.
UserPicks(d, group_name, username) ==
    SelectSeq(d["picks"].rows, LAMBDA r : SameUserLower(r, group_name, username))

OtherPicks(d, group_name, username) ==
    SelectSeq(d["picks"].rows, LAMBDA r : ~SameUserLower(r, group_name, username))

\* C18: after a successful confirm_picks of user u in group g with picks P, the
\* rows of (g, u) in picks.csv are one row per game_id of P found in games.csv,
\* with the selected team of P, the canonical group name, the username as sent
\* and the point_value games.csv held for the game; no other row of the user
\* is left, and the rows of all other users are as they were.
C18_SubmissionReplacesUserRows ==
    [][(Served /\ resp'.op = "confirm_picks" /\ resp'.status = 200) =>
          LET g    == resp'.group[1]
              u    == Strip(resp'.req.username)
              P    == resp'.req.picks[1]
              mine == UserPicks(disk', g, u)
          IN  /\ OtherPicks(disk', g, u) = OtherPicks(disk, g, u)
              /\ \A r \in Range(mine) :
                    /\ r.group_name = g /\ r.username = u
                    /\ \E i \in 1..Len(P) :
                          r.game_id = P[i][1] /\ r.selected_team = P[i][2]
                    /\ \E gm \in Range(load_games(disk)) :
                          gm.game_id = r.game_id /\ gm.point_value = <<r.point_value>>
              /\ \A i \in 1..Len(P) :
                    P[i][1] \in GameIds(disk) =>
                        Cardinality({k \in 1..Len(mine) : mine[k].game_id = P[i][1]}) = 1]_vars

\* A submission of two games as bob, the user registered as Bob, into a file
\* that also holds a row of another user for the same game with a point value
\* games.csv no longer has.
C18_Witness ==
    /\ resp.op = "confirm_picks" /\ resp.status = 200 /\ resp.changed
    /\ resp.req.username = "bob"
    /\ Len(UserPicks(disk, resp.group[1], "Bob")) = 2
    /\ \E o \in Range(OtherPicks(disk, resp.group[1], "bob")),
          m \in Range(UserPicks(disk, resp.group[1], "bob")) :
          o.game_id = m.game_id /\ o.point_value /= m.point_value

\* C19: picks.csv, free of duplicates when the server starts, never holds two
\* rows with the same group, the same username up to letter case, and the same
\* game_id, whatever requests have been served one at a time.
C19_OneRowPerUserAndGame ==
    \A i, j \in 1..Len(disk["picks"].rows) :
        LET a == disk["picks"].rows[i]
            b == disk["picks"].rows[j]
        IN  (/\ a.group_name = b.group_name
             /\ Lower(a.username) = Lower(b.username)
             /\ a.game_id = b.game_id) => i = j

\* The same user has submitted as Bob and as bob (tiebreakers.csv keeps a row of
\* each spelling), the last time successfully with rows in picks.csv.
C19_Witness ==
    /\ resp.op = "confirm_picks" /\ resp.status = 200
    /\ \E t1, t2 \in Range(disk["tiebreakers"].rows) :
          t1.username = "Bob" /\ t2.username = "bob" /\ t1.group_name = t2.group_name
    /\ HasPickRow(disk, resp.group[1], resp.req.username)
    /\ Lower(resp.req.username) = "bob"

\* C20: every user whose has_submitted flag in users.csv is true has at least
\* one row in picks.csv (group and username compared lower-cased).
C20_SubmittedFlagHasPicks ==
    \A u \in Range(disk["users"].rows) :
        u.has_submitted = <<TRUE>> => HasPickRow(disk, u.group_name, u.username)

\* C21: for the same picks.csv and games.csv every user of the picks board has
\* the total_points the leaderboard gives that user (usernames compared
\* lower-cased, the board shows them lower-cased), and leaderboard_top5 holds
\* the users with the five highest leaderboard totals.
C21_BoardsAgree ==
    /\ (resp.op = "picks_board" /\ resp.status = 200) =>
          /\ \A lb \in Handle(allowed, disk, Get("leaderboard", resp.req.group, "", "early")) :
                \A e \in Range(lb.body.leaderboard) :
                    \E b \in Range(resp.body.users) :
                        /\ b.username = Lower(e.username)
                        /\ b.total_points = e.total_points
    /\ (resp.op = "leaderboard_top5" /\ resp.status = 200) =>
          \A lb \in Handle(allowed, disk, Get("leaderboard", resp.req.group, "", "early")) :
              LET top == Range(resp.body.leaderboard)
                  all == Range(lb.body.leaderboard)
              IN  /\ Len(resp.body.leaderboard) =
                         (IF Len(lb.body.leaderboard) < TopN
                          THEN Len(lb.body.leaderboard) ELSE TopN)
                  /\ \A t \in top : \E e \in all :
                         e.username = t.username /\ e.total_points = t.total_points
                  /\ \A e \in all :
                         (\A t \in top : t.username /= e.username) =>
                             \A t \in top : t.total_points >= e.total_points

\* C22: a user without a row in tiebreakers.csv loses every tiebreak: a winner
\* without a tiebreaker row is declared only when no user with the same
\* total_points has a tiebreaker guess.
C22_NoGuessLosesTiebreak ==
    (resp.op = "winner" /\ resp.status = 200 /\ resp.body.winner /= <<>>) =>
        LET w == resp.body.winner[1]
            g == resp.group[1]
        IN  Guesses(disk, g, w.username) = {} =>
                \A u \in GroupUsers(disk, g) :
                    ExpectedTotal(disk, g, u) = w.total_points =>
                        Guesses(disk, g, u) = {}

\* The delay after k failed attempts: 3 s doubled k times, at most 60 s.
BackoffDelay(k) ==
    IF FirstDelay * 2^k < DelayCap THEN FirstDelay * 2^k ELSE DelayCap

\* The sleeps of k failed attempts in a row.
BackoffSleeps(k) == [i \in 1..k |-> BackoffDelay(i - 1)]

\* A call of fetch_games_with_backoff in progress in run r, r2 being the run after
\* the step: every attempt made so far failed and was followed by a sleep of
\* the delay then current; a further request is made only after fewer than 3;
\* a failed attempt is one more attempt; the call returns the payload of the
\* attempt that succeeds, or None after exactly 3 failed attempts.
FetchStepOk(r, r2) ==
    r.pc = "fetch" =>
        /\ r.attempt <= MaxRetries
        /\ r.sleeps = BackoffSleeps(r.attempt)
        /\ r.delay = BackoffDelay(r.attempt) /\ r.delay <= DelayCap
        /\ r2.pc = "fetch" =>
              r2.attempt = r.attempt + 1 /\ r2.sleeps = BackoffSleeps(r2.attempt)
        /\ r2.pc = "update" =>
              /\ r2.games /= NaN /\ r2.games[1] \in ApiPayloads
              /\ r2.attempt = r.attempt /\ r2.sleeps = r.sleeps
        /\ r2.pc = "read" =>
              /\ r2.attempt = MaxRetries + 1 /\ r2.games = NaN
              /\ r2.sleeps = BackoffSleeps(MaxRetries + 1)
        /\ r2.pc \in {"fetch", "update", "read"}

\* C23: fetch_games_with_backoff makes at most max_retries + 1 = 3 requests,
\* sleeps the current delay after each failed attempt and doubles it (never
\* beyond 60 s), returns the data of the first attempt that succeeds and None
\* after three failures; every step of a call is a further attempt or its end.
C23_FetchBackoff ==
    [][/\ (sched'.child /= sched.child) => FetchStepOk(sched.child, sched'.child)
       /\ (hook'.run /= hook.run) => FetchStepOk(hook.run, hook'.run)]_vars

\* C23, termination: a call in progress in the scheduler's child comes to its end.
C23_FetchTerminates ==
    (sched.pc = "child" /\ sched.child.pc = "fetch") ~> (sched.child.pc /= "fetch")

\* A call has returned None: three failed attempts, sleeps of 3, 6 and 12 s.
C23_Witness ==
    /\ sched.pc = "child" /\ sched.child.pc = "read"
    /\ sched.child.attempt = MaxRetries + 1
    /\ sched.child.sleeps = <<3, 6, 12>>
    /\ sched.child.games = NaN

\* A step of a run, r2 being the run after it.  A round without a payload
\* (its fetch returned None) writes nothing, and a new round begins only after
\* the sleep of 900 s, whether the round before it wrote the file or was skipped.
FailedRoundOk(r, r2, csv, csv2) ==
    /\ (r.pc \in {"read", "fetch"}) => csv2 = csv
    /\ (r.pc /= "read" /\ r2.pc = "read") =>
          /\ r2.sleeps /= <<>>
          /\ r2.sleeps[Len(r2.sleeps)] = RoundSleep

\* C24: a polling round whose fetch returns None leaves the games CSV as it is,
\* and the next round begins after the same wait of 15 minutes as after a round
\* that wrote the file.
C24_FailedRoundSkippedAndWaits ==
    [][/\ (sched'.child /= sched.child /\ sched.pc = "child" /\ sched'.pc = "child") =>
             FailedRoundOk(sched.child, sched'.child, games_csv, games_csv')
       /\ (hook'.run /= hook.run /\ hook.pc = "import") =>
             FailedRoundOk(hook.run, hook'.run, games_csv, games_csv')]_vars

\* C24, the part that holds: the steps of a round up to the end of its fetch
\* write nothing.
C24_FailedRoundWritesNothing ==
    [][/\ (sched'.child /= sched.child /\ sched.pc = "child" /\ sched'.pc = "child"
              /\ sched.child.pc \in {"read", "fetch"}) => games_csv' = games_csv
       /\ (hook'.run /= hook.run /\ hook.pc = "import"
              /\ hook.run.pc \in {"read", "fetch"}) => games_csv' = games_csv]_vars

\* C25: users.csv never holds two rows with the same group and the same
\* username up to letter case, whatever create-user requests have been served,
\* two at a time included.
C25_UsersUnique ==
    \A i, j \in 1..Len(disk["users"].rows) :
        LET a == disk["users"].rows[i]
            b == disk["users"].rows[j]
        IN  (a.group_name = b.group_name /\ Lower(a.username) = Lower(b.username))
                => i = j

\* Two requests for the same new username in two spellings have both read
\* users.csv and neither has been answered yet.
C25_Witness ==
    /\ procs[1].pc = "lookup" /\ procs[2].pc = "lookup"
    /\ procs[1].req.username /= procs[2].req.username
    /\ Lower(procs[1].req.username) = Lower(procs[2].req.username)
    /\ ~HasUserRow(disk, procs[1].group, procs[1].req.username)
    /\ disk["users"].exists

\* The operations that only read.
ReadOps ==
    {"leaderboard", "leaderboard_top5", "picks_board", "get_user_picks",
     "user_status", "has_submitted", "winner", "pick_lock_status", "games",
     "permalink"}

\* C26: a request to a read endpoint leaves every file as it was: none is
\* created and none is modified, whether or not it existed before.
C26_ReadsChangeNothing == (resp.op \in ReadOps) => ~resp.changed

\* What does hold of a read request: the only change it can make is to create
\* a users.csv without rows where there was none.
C26_ReadsOnlyCreateUsers ==
    [][(pc = "serving" /\ pc' = "serving" /\ resp'.op \in ReadOps /\ disk' /= disk)
          => /\ ~disk["users"].exists
             /\ disk' = [disk EXCEPT !["users"] = File(<<>>)]]_vars

====
